---- MODULE Spec2Model ----
(***************************************************************************)
(* The Redux store of createStore (src/unnamed/part_000) as a state        *)
(* machine.  The store is single-threaded and synchronous, but dispatch    *)
(* calls back into caller code (the reducer, then every listener), and     *)
(* that code may call the store again.  The model keeps the call stack of  *)
(* dispatch invocations explicitly: one frame per dispatch in flight, with *)
(* the position of that invocation (inside the reducer, between two        *)
(* listeners, inside a listener).  What reducers and listeners do while    *)
(* they run is the environment's choice.                                   *)
(*                                                                         *)
(* Arrays are JavaScript objects compared by reference                    *)
(* (nextListeners === currentListeners), so the listener arrays live in a  *)
(* heap, arrays, and currentListeners / nextListeners / a frame's          *)
(* listeners are references (indices) into it.                             *)
(***************************************************************************)
EXTENDS Integers, Sequences, FiniteSets, TLC

\* ------------------------------------------------------------------ bounds
MaxSubs     == 2   \* subscribe calls that register a listener
MaxSubsHistory == 1 \* the same, in the runs that record history
MaxDepth    == 2   \* dispatch invocations in flight (nesting through listeners)
MaxDispatch == 3   \* dispatch calls that reach the reducer and return from it
ValMod      == 3   \* the state tree is a number 0 .. ValMod-1, or undefined

\* ------------------------------------------------------------------ values
Undefined == -1                \* JavaScript's undefined, as a state value
INIT      == "@@redux/INIT"    \* ActionTypes.INIT
NotAFunction == "notAFunction" \* an argument with typeof x !== 'function'

Listeners == {"L1", "L2"}      \* listener references the callers hold
Reducers  == {"counter", "shift"}
PreloadedStates == {Undefined, 1}

\* createStore's arguments.  AFunction is a function passed as preloadedState or
\* as enhancer; identity is the reducer (state, action) => state and thrower a
\* reducer that throws on every action; the number 1 passed as enhancer is an
\* enhancer that is no function.
AFunction   == -2
ReducerArgs == Reducers \cup {"identity", "thrower", NotAFunction}
PreloadedStateArgs == PreloadedStates \cup {AFunction}
EnhancerArgs == {Undefined, AFunction, 1}

typeof(x) == IF x = Undefined THEN "undefined"
             ELSE IF x = AFunction THEN "function"
             ELSE "number"

\* An action value: what kind of JavaScript value it is and its type property.
Action(k, t)   == [kind |-> k, type |-> t]
InitAction     == Action("object", INIT)
ValidActions   == {Action("object", t) : t \in {"INC", "DBL", "BOOM"}}
InvalidActions == {Action("string", "undefined"), Action("array", "undefined"),
                   Action("instance", "INC"), Action("object", "undefined")}

\* isPlainObject taking every value for a plain object.
isPlainObjectLax(a) == TRUE

isPlainObject(a) == a.kind = "object"

\* An error: its kind and, for the error of a listener (ghost), how many
\* listeners of the pass it aborted were left uncalled.
Error(k) == [kind |-> k, left |-> 0]
NoError  == Error("none")

\* A frame past its reducer call no longer records which action and reducer it
\* ran: nothing the store does afterwards reads them.
NoAction  == Action("object", "done")
NoReducer == "done"

\* The caller's reducers.  counter throws on BOOM; shift changes the state on
\* INIT, so that an INIT dispatch is visible in the state; identity returns the
\* state it is given, undefined included.
Throws(r, s, a) == (r = "counter" /\ a.type = "BOOM") \/ r = "thrower"

Reduce(r, s, a) ==
  IF r = "counter"
  THEN LET b == IF s = Undefined THEN 0 ELSE s
       IN  CASE a.type = "INC" -> (b + 1) % ValMod
             [] a.type = "DBL" -> (b * 2) % ValMod
             [] OTHER          -> b
  ELSE IF r \in {"identity", "thrower"}
  THEN s
  ELSE LET b == IF s = Undefined THEN 1 ELSE s
       IN  CASE a.type = INIT  -> (b + 1) % ValMod
             [] a.type = "INC" -> (b + 2) % ValMod
             [] OTHER          -> b

\* ------------------------------------------------------------------ state
VARIABLES
  currentReducer,    \* let currentReducer
  currentState,      \* let currentState
  arrays,            \* the heap of listener arrays: reference -> contents
  currentListeners,  \* let currentListeners (a reference)
  nextListeners,     \* let nextListeners (a reference)
  isDispatching,     \* let isDispatching
  subs,              \* one entry per subscribe closure: listener, isSubscribed
  stack,             \* the dispatch invocations in flight, innermost last
  exc,               \* the error being thrown, or last thrown to the store's caller
  created,           \* createStore's own position
  preloaded,         \* ghost: createStore's preloadedState argument, when tracking
  tracking,          \* ghost: whether this run records history
  history,           \* ghost: <<reducer, action>> of every dispatch call that did not fail
  registry,          \* ghost: the subscribe/unsubscribe calls applied in order
  args,              \* createStore's arguments (reducer, preloadedState, enhancer)
  read,              \* ghost: <<v>>, what getState last returned, when tracking
  funcs,             \* compose's argument list
  composed,          \* what compose returned
  given,             \* the arguments of the call of the composed or bound function
  applied,           \* ghost: the functions of funcs called so far, each with its arity
  result,            \* what the call of the composed function returned
  actionCreators,    \* bindActionCreators' first argument
  boundActionCreators, \* what bindActionCreators returned
  dispatched,        \* ghost: the arguments of the calls of dispatch so far
  returned           \* what the call of a bound action creator returned

\* The variables of compose and bindActionCreators (src/src/compose.js), which
\* no operation of the store touches.
utilVars == <<funcs, composed, given, applied, result, actionCreators,
              boundActionCreators, dispatched, returned>>

\* The variables of one store.
storeVars == <<currentReducer, currentState, arrays, currentListeners, nextListeners,
               isDispatching, subs, stack, exc, created, preloaded, tracking, history,
               registry, args, read>>

vars == <<storeVars, utilVars>>

\* ------------------------------------------------------------------ helpers
Top == stack[Len(stack)]
Pop == SubSeq(stack, 1, Len(stack) - 1)
SetTop(f) == [stack EXCEPT ![Len(stack)] = f]

InReducer  == stack # <<>> /\ Top.pc = "reducer"
InListener == stack # <<>> /\ Top.pc = "listener"
InPass(f)  == f.pc \in {"notify", "listener"}

\* Code that holds the store and is running: the caller of createStore once it
\* has the store (any error it got is behind it), or a reducer or listener
\* that the store is calling and that has no error in flight.
External == stack = <<>> /\ created = "returned"
CanCall  == External \/ (created = "returned" /\ exc = NoError /\ (InReducer \/ InListener))

Count(seq, l) == Cardinality({k \in 1 .. Len(seq) : seq[k] = l})
Without(seq, l) == SelectSeq(seq, LAMBDA x : x # l)

\* Array.prototype.indexOf: the first index (from 0) holding l, or -1.
IndexOf(seq, l) ==
  IF \E k \in 1 .. Len(seq) : seq[k] = l
  THEN (CHOOSE k \in 1 .. Len(seq) : seq[k] = l /\ \A j \in 1 .. (k - 1) : seq[j] # l) - 1
  ELSE 0 - 1

\* splice(index) for splice(index, 1): everything from index on is removed.
SpliceToEnd(seq, index) ==
  LET at == IF index < 0 THEN (IF Len(seq) + index < 0 THEN 0 ELSE Len(seq) + index) ELSE index
  IN  SubSeq(seq, 1, at)

\* Array.prototype.splice(index, 1): a negative index counts from the end.
Splice(seq, index) ==
  LET at == IF index < 0 THEN (IF Len(seq) + index < 0 THEN 0 ELSE Len(seq) + index) ELSE index
  IN  IF at >= Len(seq) THEN seq
      ELSE SubSeq(seq, 1, at) \o SubSeq(seq, at + 2, Len(seq))

\* The heap.  An array is reachable through currentListeners, nextListeners
\* and the listeners constant of every dispatch that has taken its snapshot,
\* so MaxDepth + 2 cells hold every reachable array.  A cell nothing refers to
\* is free: it holds [] and is the next one slice() may return.
Refs == 1 .. (MaxDepth + 2)

Referenced(cur, nxt, stk) ==
  {cur, nxt} \cup {stk[k].listeners : k \in {j \in 1 .. Len(stk) : InPass(stk[j])}}

Collect(arr, cur, nxt, stk) ==
  [r \in Refs |-> IF r \in Referenced(cur, nxt, stk) THEN arr[r] ELSE <<>>]

NewRef ==
  CHOOSE r \in Refs : /\ r \notin Referenced(currentListeners, nextListeners, stack)
                      /\ \A q \in Refs : q < r => q \in Referenced(currentListeners, nextListeners, stack)

\* ensureCanMutateNextListeners without its slice(): the shared array is kept.
ensureWithoutCopy == [arrays |-> arrays, nextListeners |-> nextListeners]

\* ensureCanMutateNextListeners: the heap and nextListeners after the call.
ensureCanMutateNextListeners ==
  IF nextListeners = currentListeners
  THEN [arrays |-> [arrays EXCEPT ![NewRef] = arrays[currentListeners]], nextListeners |-> NewRef]
  ELSE [arrays |-> arrays, nextListeners |-> nextListeners]

\* The stack and createStore's position once the innermost dispatch has ended
\* with error e (NoError: it returned).
Leave(e) ==
  /\ stack' = Pop
  /\ arrays' = Collect(arrays, currentListeners, nextListeners, Pop)
  /\ exc' = e
  /\ created' = IF created = "boot" /\ Len(stack) = 1
                THEN (IF e = NoError THEN "returned" ELSE "threw")
                ELSE created

\* The arguments of a createStore call; via (ghost) tells how the call came
\* about: "caller", or from the enhancer the construction was handed to, given
\* as third argument ("enhancer") or as second ("overload").
Args(r, p, e, v) == [reducer |-> r, preloadedState |-> p, enhancer |-> e, via |-> v]
NoArgs == Args(NoReducer, Undefined, Undefined, "caller")
NoRead == <<>>

\* ------------------------------------------------------------------ compose.js values
\* The values compose and bindActionCreators work on.  A value a probe function
\* returns is the text of the call that made it, f(x,y), so that what a chain
\* of calls returns tells which functions were called, on what, in what order.
RECURSIVE Join(_)
Join(a) == IF a = <<>> THEN ""
           ELSE IF Len(a) = 1 THEN a[1]
           ELSE a[1] \o "," \o Join(Tail(a))

Call(name, a) == name \o "(" \o Join(a) \o ")"

NotCalled == "not called"
UndefinedValue == "undefined"

\* A function value: none yet, the arrow function arg => arg of line 15, one of
\* the caller's functions (fs holds its name), or the arrow function
\* (...args) => a(b(...args)) of line 35, whose fs holds the functions of a, then b.
Fn(k, fs) == [kind |-> k, fs |-> fs]
NoFunction == Fn("none", <<>>)
Identity   == Fn("identity", <<>>)
Probe(name) == Fn("probe", <<name>>)

\* A value passed as actionCreators: what typeof says of it, whether it is
\* null, the function it is, and the properties it has as <<key, value>> pairs.
Value(t, n, f, ps) == [typeof |-> t, null |-> n, fn |-> f, props |-> ps]
NoValue == Value("undefined", FALSE, "", {})

\* What bindActionCreators returns: nothing yet, an error, one bound function,
\* or an object of bound functions as <<key, function>> pairs.  A bound
\* function is the arrow function of line 41, kept as the pair of the action
\* creator and the dispatch function it was made with.
NoWrapper == <<"", "">>
Bound(k, f, ps) == [kind |-> k, fn |-> f, props |-> ps]
NoBound == Bound("none", NoWrapper, {})

\* compose and bindActionCreators before any call of them.
UtilIdle ==
  /\ funcs = <<>>
  /\ composed = NoFunction
  /\ given = <<>>
  /\ applied = <<>>
  /\ result = NotCalled
  /\ actionCreators = NoValue
  /\ boundActionCreators = NoBound
  /\ dispatched = <<>>
  /\ returned = NotCalled

\* ------------------------------------------------------------------ Init
\* createStore(reducer, preloadedState) at line 270: the variables of lines
\* 63-67 are set and the bootstrap dispatch is about to be called.
Init ==
  /\ currentReducer \in Reducers
  /\ currentState \in PreloadedStates
  /\ preloaded = Undefined
  /\ arrays = [r \in Refs |-> <<>>]
  /\ currentListeners = 1
  /\ nextListeners = 1
  /\ isDispatching = FALSE
  /\ subs = <<>>
  /\ stack = <<>>
  /\ exc = NoError
  /\ created = "line270"
  /\ tracking = FALSE
  /\ history = <<>>
  /\ registry = <<>>
  /\ args = NoArgs
  /\ read = NoRead
  /\ UtilIdle

\* ------------------------------------------------------------------ dispatch
\* history without the dispatch whose reducer is running: it failed.
Unlogged == IF tracking THEN SubSeq(history, 1, Len(history) - 1) ELSE history

\* The reducer called with the preloaded state for the current one.
ReducerResultOfPreloaded(f) == Reduce(f.reducer, preloaded, f.action)

\* Line 185 without its assignment: the state stays what it was.
ReducerResultDropped(f) == currentState

\* What line 185 stores on a normal return of the reducer.
ReducerResult(f) == Reduce(f.reducer, currentState, f.action)

\* No finally block: the flag is left as the reducer call found it.
FinallyMissing == isDispatching

\* What the finally block of line 188 leaves in isDispatching.
FinallyIsDispatching == FALSE

\* The pass iterating currentListeners without taking nextListeners.
SnapshotStale == currentListeners

\* The reference line 193 assigns to currentListeners and to listeners.
SnapshotListeners == nextListeners

\* dispatch without the assignment of line 183: the flag is never set.
TryMissing == isDispatching

\* What line 183 assigns to isDispatching before the reducer is called.
TryIsDispatching == TRUE

\* dispatch without the test of line 177.
ReentrancyGuardOff == FALSE

\* The test of line 177.
ReentrancyGuard == isDispatching

\* dispatch(action), lines 161-185, up to the call of the reducer: the checks,
\* then the flag, then the reducer is entered (a frame is pushed).  It is used
\* by the caller's dispatch, by replaceReducer and by createStore.  A frame's
\* begin (the listeners registered when the call began) and refused (when
\* tracking: a dispatch the reducer of this call made was refused) are ghosts.
dispatch(action) ==
  IF ~isPlainObject(action)
  THEN /\ exc' = Error("InvalidAction")
       /\ UNCHANGED <<currentState, arrays, currentListeners, nextListeners,
                      isDispatching, subs, stack, history, registry>>
  ELSE IF action.type = "undefined"
  THEN /\ exc' = Error("InvalidAction")
       /\ UNCHANGED <<currentState, arrays, currentListeners, nextListeners,
                      isDispatching, subs, stack, history, registry>>
  ELSE IF ReentrancyGuard
  THEN /\ exc' = Error("ReducersMayNotDispatch")
       /\ stack' = IF tracking /\ InReducer
                   THEN SetTop([Top EXCEPT !.refused = TRUE])
                   ELSE stack
       /\ UNCHANGED <<currentState, arrays, currentListeners, nextListeners,
                      isDispatching, subs, history, registry>>
  ELSE /\ Len(stack) < MaxDepth
       /\ tracking => Len(history) < MaxDispatch
       /\ isDispatching' = TryIsDispatching
       /\ exc' = NoError
       /\ stack' = Append(stack, [pc        |-> "reducer",
                                  action    |-> action,
                                  reducer   |-> currentReducer',
                                  listeners |-> 0,
                                  i         |-> 0,
                                  snap      |-> <<>>,
                                  called    |-> <<>>,
                                  begin     |-> arrays[nextListeners],
                                  refused   |-> FALSE])
       /\ history' = IF tracking THEN Append(history, <<currentReducer', action>>) ELSE history
       /\ UNCHANGED <<currentState, arrays, currentListeners, nextListeners,
                      subs, registry>>

\* createStore without line 270: the store is returned as lines 63-67 left it.
BootstrapSkipped ==
  /\ created = "line270"
  /\ created' = "returned"
  /\ UNCHANGED <<currentReducer, currentState, arrays, currentListeners,
                 nextListeners, isDispatching, subs, stack, exc, preloaded,
                 tracking, history, registry, args, read, utilVars>>

\* createStore line 270: dispatch({type: ActionTypes.INIT}).
Bootstrap ==
  /\ created = "line270"
  /\ created' = "boot"
  /\ UNCHANGED <<currentReducer, preloaded, tracking, args, read, utilVars>>
  /\ dispatch(InitAction)

\* store.dispatch(action), called by code that holds the store.
Dispatch(action) ==
  /\ CanCall
  /\ UNCHANGED <<currentReducer, preloaded, tracking, args, read, utilVars, created>>
  /\ dispatch(action)

\* Lines 185-193, the reducer returns r: the state is assigned, the finally
\* block clears the flag, and the pass takes its snapshot.
ReducerReturn ==
  /\ InReducer
  /\ exc = NoError
  /\ ~Throws(Top.reducer, currentState, Top.action)
  /\ currentState' = ReducerResult(Top)
  /\ isDispatching' = FinallyIsDispatching
  /\ currentListeners' = SnapshotListeners
  /\ stack' = SetTop([Top EXCEPT !.pc = "notify",
                                 !.action = NoAction,
                                 !.reducer = NoReducer,
                                 !.listeners = SnapshotListeners,
                                 !.i = 0,
                                 !.snap = arrays[SnapshotListeners]])
  /\ arrays' = Collect(arrays, currentListeners', nextListeners, stack')
  /\ read' = NoRead
  /\ UNCHANGED <<currentReducer, nextListeners, subs, exc, created,
                 preloaded, tracking, args, utilVars, history, registry>>

\* Lines 185-188, the reducer throws: no assignment, the finally block runs,
\* and the error leaves dispatch.
ReducerThrow ==
  /\ InReducer
  /\ exc = NoError
  /\ Throws(Top.reducer, currentState, Top.action)
  /\ isDispatching' = FinallyIsDispatching
  /\ Leave(Error("ReducerThrew"))
  /\ history' = Unlogged
  /\ UNCHANGED <<currentReducer, currentState, currentListeners,
                 nextListeners, subs, preloaded, tracking, args, read, utilVars, registry>>

\* The reducer lets an error of a call it made (a dispatch, refused) escape:
\* as ReducerThrow, with that error.
ReducerRethrow ==
  /\ InReducer
  /\ exc # NoError
  /\ isDispatching' = FinallyIsDispatching
  /\ Leave(exc)
  /\ history' = Unlogged
  /\ UNCHANGED <<currentReducer, currentState, currentListeners,
                 nextListeners, subs, preloaded, tracking, args, read, utilVars, registry>>

\* A reducer or listener catches the error of a call it made.
Catch ==
  /\ InReducer \/ InListener
  /\ exc # NoError
  /\ exc' = NoError
  /\ UNCHANGED <<currentReducer, currentState, arrays, currentListeners,
                 nextListeners, isDispatching, subs, stack, created, preloaded,
                 tracking, args, read, utilVars, history, registry>>

\* Lines 194-196: the loop test holds and listeners[i] is called.
InvokeListener ==
  /\ stack # <<>>
  /\ Top.pc = "notify"
  /\ Top.i < Len(arrays[Top.listeners])
  /\ stack' = SetTop([Top EXCEPT !.pc = "listener",
                                 !.called = Append(@, arrays[Top.listeners][Top.i + 1])])
  /\ UNCHANGED <<currentReducer, currentState, arrays, currentListeners,
                 nextListeners, isDispatching, subs, exc, created, preloaded,
                 tracking, args, read, utilVars, history, registry>>

\* Line 194: the listener returned, i++.
ListenerReturn ==
  /\ InListener
  /\ exc = NoError
  /\ stack' = SetTop([Top EXCEPT !.pc = "notify", !.i = @ + 1])
  /\ UNCHANGED <<currentReducer, currentState, arrays, currentListeners,
                 nextListeners, isDispatching, subs, exc, created, preloaded,
                 tracking, args, read, utilVars, history, registry>>

\* dispatch catching what a listener throws and going on with the next one.
ListenerThrowSwallowed ==
  /\ InListener
  /\ exc' = NoError
  /\ stack' = SetTop([Top EXCEPT !.pc = "notify", !.i = @ + 1])
  /\ UNCHANGED <<currentReducer, currentState, arrays, currentListeners,
                 nextListeners, isDispatching, subs, created, preloaded,
                 tracking, args, read, utilVars, history, registry>>

\* Line 196: the listener throws, or lets the error of a call it made escape;
\* nothing in dispatch catches it.
ListenerThrow ==
  /\ InListener
  /\ Leave(IF exc = NoError
           THEN [kind |-> "ListenerThrew", left |-> Len(arrays[Top.listeners]) - (Top.i + 1)]
           ELSE exc)
  /\ UNCHANGED <<currentReducer, currentState, currentListeners,
                 nextListeners, isDispatching, subs, preloaded, tracking, args, read, utilVars, history, registry>>

\* Lines 194 and 200: the loop test fails and dispatch returns the action.
DispatchReturn ==
  /\ stack # <<>>
  /\ Top.pc = "notify"
  /\ Top.i >= Len(arrays[Top.listeners])
  /\ Leave(NoError)
  /\ UNCHANGED <<currentReducer, currentState, currentListeners,
                 nextListeners, isDispatching, subs, preloaded, tracking, args, read, utilVars, history, registry>>

\* ------------------------------------------------------------------ getState
\* getState returning the state createStore was given.
GetStatePreloaded == preloaded

\* What getState returns, line 82.
GetStateResult == currentState

\* getState(), lines 81-83.  read (ghost) keeps the value returned until the
\* next assignment of line 185.
GetState ==
  /\ CanCall
  /\ read' = IF tracking THEN <<GetStateResult>> ELSE read
  /\ exc' = NoError
  /\ UNCHANGED <<currentReducer, currentState, arrays, currentListeners,
                 nextListeners, isDispatching, subs, stack, created, preloaded,
                 tracking, history, registry, args, utilVars>>

\* ------------------------------------------------------------------ subscribe
\* subscribe(listener), lines 109-133.
Subscribe(listener) ==
  /\ CanCall
  /\ listener # NotAFunction
  /\ Len(subs) < (IF tracking THEN MaxSubsHistory ELSE MaxSubs)
  /\ LET e == ensureCanMutateNextListeners
     IN  /\ nextListeners' = e.nextListeners
         /\ arrays' = [e.arrays EXCEPT ![e.nextListeners] = Append(@, listener)]
  /\ subs' = Append(subs, [listener |-> listener, isSubscribed |-> TRUE, calls |-> 0])
  /\ registry' = Append(registry, listener)
  /\ exc' = NoError
  /\ UNCHANGED <<currentReducer, currentState, currentListeners, isDispatching,
                 stack, created, preloaded, tracking, args, read, utilVars, history>>

\* The closure without its isSubscribed test.
NeverUnsubscribed(s) == FALSE

\* Line 123: whether the closure returns at once.
AlreadyUnsubscribed(s) == ~subs[s].isSubscribed

\* The closure subscribe returned, lines 122-132; s names the subscribe call.
\* calls counts the calls of this closure (ghost, it stops at 2).
Unsubscribe(s) ==
  /\ CanCall
  /\ s \in 1 .. Len(subs)
  /\ exc' = NoError
  /\ IF AlreadyUnsubscribed(s)
     THEN /\ subs' = [subs EXCEPT ![s].calls = IF @ < 2 THEN @ + 1 ELSE @]
          /\ UNCHANGED <<arrays, nextListeners, registry>>
     ELSE /\ subs' = [subs EXCEPT ![s].isSubscribed = FALSE,
                                  ![s].calls = IF @ < 2 THEN @ + 1 ELSE @]
          /\ LET e == ensureCanMutateNextListeners
                 index == IndexOf(e.arrays[e.nextListeners], subs[s].listener)
             IN  /\ nextListeners' = e.nextListeners
                 /\ arrays' = [e.arrays EXCEPT ![e.nextListeners] = Splice(@, index)]
          /\ registry' = Splice(registry, IndexOf(registry, subs[s].listener))
  /\ UNCHANGED <<currentReducer, currentState, currentListeners, isDispatching,
                 stack, created, preloaded, tracking, args, read, utilVars, history>>

\* ------------------------------------------------------------------ replaceReducer
\* replaceReducer without the assignment of line 220.
ReplacedReducerKept(nextReducer) == currentReducer

\* What line 220 assigns to currentReducer.
ReplacedReducer(nextReducer) == nextReducer

\* replaceReducer(nextReducer), lines 214-225.
ReplaceReducer(nextReducer) ==
  /\ CanCall
  /\ UNCHANGED <<preloaded, tracking, args, read, utilVars, created>>
  /\ nextReducer # NotAFunction
  /\ currentReducer' = ReplacedReducer(nextReducer)
  /\ dispatch(InitAction)

\* ------------------------------------------------------------------ Next
Next ==
  \/ Bootstrap
  \/ \E a \in ValidActions \cup InvalidActions : Dispatch(a)
  \/ ReducerReturn
  \/ ReducerThrow
  \/ ReducerRethrow
  \/ Catch
  \/ InvokeListener
  \/ ListenerReturn
  \/ ListenerThrow
  \/ DispatchReturn
  \/ \E l \in Listeners : Subscribe(l)
  \/ \E s \in 1 .. MaxSubs : Unsubscribe(s)
  \/ \E r \in Reducers : ReplaceReducer(r)
  \/ GetState

Spec == Init /\ [][Next]_vars

\* The same store with the ghost history recorded, for the claims about the
\* sequence of dispatched actions; MaxDispatch bounds that sequence.
InitHistory ==
  /\ currentReducer \in Reducers
  /\ currentState \in PreloadedStates
  /\ preloaded = currentState
  /\ arrays = [r \in Refs |-> <<>>]
  /\ currentListeners = 1
  /\ nextListeners = 1
  /\ isDispatching = FALSE
  /\ subs = <<>>
  /\ stack = <<>>
  /\ exc = NoError
  /\ created = "line270"
  /\ tracking = TRUE
  /\ history = <<>>
  /\ registry = <<>>
  /\ args = NoArgs
  /\ read = NoRead
  /\ UtilIdle

SpecHistory == InitHistory /\ [][Next]_vars

\* ------------------------------------------------------------------ createStore
\* createStore(reducer, preloadedState, enhancer), lines 39-67: the overload of
\* the second argument, the delegation to the enhancer, the test of the
\* reducer and the store's variables.
CreateStore ==
  /\ created = "line39"
  /\ LET overload == typeof(args.preloadedState) = "function" /\ typeof(args.enhancer) = "undefined"
         enhancer == IF overload THEN args.preloadedState ELSE args.enhancer
         preloadedState == IF overload THEN Undefined ELSE args.preloadedState
     IN  IF typeof(enhancer) # "undefined"
         THEN IF typeof(enhancer) # "function"
              THEN /\ created' = "threw"
                   /\ exc' = Error("ExpectedEnhancer")
                   /\ UNCHANGED <<args, currentReducer, currentState, preloaded>>
              ELSE /\ created' = "enhancer"
                   /\ args' = Args(args.reducer, preloadedState, Undefined,
                                   IF overload THEN "overload" ELSE "enhancer")
                   /\ UNCHANGED <<exc, currentReducer, currentState, preloaded>>
         ELSE IF args.reducer = NotAFunction
              THEN /\ created' = "threw"
                   /\ exc' = Error("ExpectedReducer")
                   /\ UNCHANGED <<args, currentReducer, currentState, preloaded>>
              ELSE /\ created' = "line270"
                   /\ currentReducer' = args.reducer
                   /\ currentState' = preloadedState
                   /\ preloaded' = IF tracking THEN preloadedState ELSE preloaded
                   /\ UNCHANGED <<args, exc>>
  /\ arrays' = [r \in Refs |-> <<>>]
  /\ currentListeners' = 1
  /\ nextListeners' = 1
  /\ isDispatching' = FALSE
  /\ UNCHANGED <<subs, stack, tracking, history, registry, read, utilVars>>

\* Line 53, enhancer(createStore)(reducer, preloadedState): the enhancer is the
\* caller's; it makes the store by calling the createStore it was given with
\* the arguments it was given, and returns that store.
EnhancerCallsCreateStore ==
  /\ created = "enhancer"
  /\ created' = "line39"
  /\ UNCHANGED <<currentReducer, currentState, arrays, currentListeners,
                 nextListeners, isDispatching, subs, stack, exc, preloaded,
                 tracking, history, registry, args, read, utilVars>>

\* A createStore call from its first line to the first read of the new store.
InitCreate ==
  /\ args \in {Args(r, p, e, "caller") : r \in ReducerArgs, p \in PreloadedStateArgs, e \in EnhancerArgs}
  /\ created = "line39"
  /\ currentReducer = NoReducer
  /\ currentState = Undefined
  /\ preloaded = Undefined
  /\ arrays = [r \in Refs |-> <<>>]
  /\ currentListeners = 1
  /\ nextListeners = 1
  /\ isDispatching = FALSE
  /\ subs = <<>>
  /\ stack = <<>>
  /\ exc = NoError
  /\ tracking = TRUE
  /\ history = <<>>
  /\ registry = <<>>
  /\ read = NoRead
  /\ UtilIdle

NextCreate ==
  \/ CreateStore
  \/ EnhancerCallsCreateStore
  \/ Bootstrap
  \/ ReducerReturn
  \/ ReducerThrow
  \/ DispatchReturn
  \/ GetState

SpecCreate == InitCreate /\ [][NextCreate]_vars

\* ------------------------------------------------------------------ compose
MaxFuncs == 3   \* functions passed to compose
MaxArgs  == 2   \* arguments of the call of a composed or bound function

Probes    == {"f", "g", "h"}    \* the caller's functions
Arguments == {"x", "y"}         \* the caller's argument values

SeqsUpTo(S, n) == UNION {[1 .. k -> S] : k \in 0 .. n}

\* (...args) => b(a(...args)): the two functions in the wrong order.
ClosureFlipped(a, b) == Fn("closure", b.fs \o a.fs)

\* (a, b) => (...args) => a(b(...args)), the function reduce is given at line 35.
Closure(a, b) == Fn("closure", a.fs \o b.fs)

\* Array.prototype.reduce without an initial value, as line 35 calls it: acc
\* starts as the first element and takes every further element in turn.
RECURSIVE reduce(_, _)
reduce(acc, rest) ==
  IF rest = <<>> THEN acc ELSE reduce(Closure(acc, Head(rest)), Tail(rest))

\* compose(...funcs), lines 12-36.
compose(fs) ==
  IF Len(fs) = 0 THEN Identity
  ELSE IF Len(fs) = 1 THEN fs[1]
  ELSE reduce(Head(fs), Tail(fs))

\* fn(...a): the value returned and the calls of the caller's functions made,
\* after those of log.  The arrow function of line 35 calls b with all the
\* arguments and a with b's value.
RECURSIVE Apply(_, _, _)
Apply(fn, a, log) ==
  IF fn.kind = "identity"
  THEN [value |-> IF a = <<>> THEN UndefinedValue ELSE a[1], log |-> log]
  ELSE IF fn.kind = "probe"
  THEN [value |-> Call(fn.fs[1], a), log |-> Append(log, <<fn.fs[1], Len(a)>>)]
  ELSE LET n  == Len(fn.fs)
           fa == IF n = 2 THEN Probe(fn.fs[1]) ELSE Fn("closure", SubSeq(fn.fs, 1, n - 1))
           fb == Probe(fn.fs[n])
           rb == Apply(fb, a, log)
       IN  Apply(fa, <<rb.value>>, rb.log)

\* The caller calls compose(...funcs).
Compose ==
  /\ composed = NoFunction
  /\ composed' = compose(funcs)
  /\ UNCHANGED <<funcs, given, applied, result, actionCreators,
                 boundActionCreators, dispatched, returned, storeVars>>

\* The caller calls the function compose returned.
CallComposed(a) ==
  /\ composed # NoFunction
  /\ result = NotCalled
  /\ given' = a
  /\ LET r == Apply(composed, a, <<>>)
     IN  /\ result' = r.value
         /\ applied' = r.log
  /\ UNCHANGED <<funcs, composed, actionCreators, boundActionCreators,
                 dispatched, returned, storeVars>>

\* No store: the variables of createStore before any call of it.
StoreIdle ==
  /\ args = NoArgs
  /\ created = "line39"
  /\ currentReducer = NoReducer
  /\ currentState = Undefined
  /\ preloaded = Undefined
  /\ arrays = [r \in Refs |-> <<>>]
  /\ currentListeners = 1
  /\ nextListeners = 1
  /\ isDispatching = FALSE
  /\ subs = <<>>
  /\ stack = <<>>
  /\ exc = NoError
  /\ tracking = FALSE
  /\ history = <<>>
  /\ registry = <<>>
  /\ read = NoRead

InitCompose ==
  /\ StoreIdle
  /\ funcs \in SeqsUpTo({Probe(p) : p \in Probes}, MaxFuncs)
  /\ composed = NoFunction
  /\ given = <<>>
  /\ applied = <<>>
  /\ result = NotCalled
  /\ actionCreators = NoValue
  /\ boundActionCreators = NoBound
  /\ dispatched = <<>>
  /\ returned = NotCalled

NextCompose ==
  \/ Compose
  \/ \E a \in SeqsUpTo(Arguments, MaxArgs) : CallComposed(a)

SpecCompose == InitCompose /\ [][NextCompose]_vars

\* ------------------------------------------------------------------ bindActionCreators
MaxCalls == 2   \* calls of bound action creators

Keys     == {"a", "b"}           \* property names of the actionCreators object
Creators == {"inc", "dbl"}       \* the caller's action creators
PropertyValues == Creators \cup {NotAFunction}
DispatchFn == "dispatch"         \* the dispatch function passed to bindActionCreators

\* Objects with some of Keys as properties, one value each.
Objects == {ps \in SUBSET (Keys \X PropertyValues) :
              \A p, q \in ps : p[1] = q[1] => p = q}

\* The values passed as actionCreators: a function, an object, null, a number.
ActionCreatorsArgs ==
  {Value("function", FALSE, c, {}) : c \in Creators}
    \cup {Value("object", FALSE, "", ps) : ps \in Objects}
    \cup {Value("object", TRUE, "", {}), Value("number", FALSE, "", {})}

\* The test of line 86 letting every value through.
IsAnything(v) == TRUE

\* typeof actionCreator === 'function', line 86.
IsActionCreator(v) == v \in Creators

\* bindActionCreator(actionCreator, dispatch), lines 40-42: the arrow function
\* (...args) => dispatch(actionCreator(...args)).
bindActionCreator(actionCreator, dispatchFn) == <<actionCreator, dispatchFn>>

\* bindActionCreators(actionCreators, dispatch), lines 65-93.
bindActionCreators(ac, dispatchFn) ==
  IF ac.typeof = "function"
  THEN Bound("function", bindActionCreator(ac.fn, dispatchFn), {})
  ELSE IF ac.typeof # "object" \/ ac.null
  THEN Bound("threw", NoWrapper, {})
  ELSE Bound("object", NoWrapper,
             {<<p[1], bindActionCreator(p[2], dispatchFn)>> : p \in {q \in ac.props : IsActionCreator(q[2])}})

\* The caller calls bindActionCreators(actionCreators, dispatch).
Bind ==
  /\ boundActionCreators = NoBound
  /\ boundActionCreators' = bindActionCreators(actionCreators, DispatchFn)
  /\ UNCHANGED <<funcs, composed, given, applied, result, actionCreators,
                 dispatched, returned, storeVars>>

\* The arrow function of line 41 called with a: dispatch(actionCreator(...a)).
\* dispatched (ghost) logs the argument of every call of the dispatch function.
CallBoundFunction(bound, a) ==
  /\ Len(dispatched) < MaxCalls
  /\ given' = a
  /\ dispatched' = Append(dispatched, Call(bound[1], a))
  /\ returned' = Call(bound[2], <<Call(bound[1], a)>>)
  /\ UNCHANGED <<funcs, composed, applied, result, actionCreators,
                 boundActionCreators, storeVars>>

\* The caller calls the function bindActionCreators returned, or the one the
\* object it returned has under key.
CallBound(key, a) ==
  \/ /\ boundActionCreators.kind = "function"
     /\ CallBoundFunction(boundActionCreators.fn, a)
  \/ /\ boundActionCreators.kind = "object"
     /\ \E p \in boundActionCreators.props : p[1] = key /\ CallBoundFunction(p[2], a)

InitBind ==
  /\ StoreIdle
  /\ funcs = <<>>
  /\ composed = NoFunction
  /\ given = <<>>
  /\ applied = <<>>
  /\ result = NotCalled
  /\ actionCreators \in ActionCreatorsArgs
  /\ boundActionCreators = NoBound
  /\ dispatched = <<>>
  /\ returned = NotCalled

NextBind ==
  \/ Bind
  \/ \E key \in Keys, a \in SeqsUpTo(Arguments, MaxArgs) : CallBound(key, a)

SpecBind == InitBind /\ [][NextBind]_vars

\* ------------------------------------------------------------------ claims
ActiveCount(l) == Cardinality({s \in 1 .. Len(subs) : subs[s].listener = l /\ subs[s].isSubscribed})
NextArray == arrays[nextListeners]
PassDone(f) == f.pc = "notify" /\ f.i >= Len(arrays[f.listeners])
JustSnapshotted == stack # <<>> /\ Top.pc = "notify" /\ Top.i = 0

RECURSIVE Fold(_, _)
Fold(h, s) == IF h = <<>> THEN s ELSE Fold(Tail(h), Reduce(Head(h)[1], s, Head(h)[2]))

\* The dispatch calls whose reducer has returned.
Completed == IF InReducer THEN SubSeq(history, 1, Len(history) - 1) ELSE history

\* C1: the state is the left fold of the reducers over the actions dispatched so
\* far, starting from the preloaded state, and the first of them is the
\* bootstrap INIT; nothing else (listeners, flag) enters the value.
C1_StateIsLeftFold ==
  /\ currentState = Fold(Completed, preloaded)
  /\ created = "returned" => (Len(history) >= 1 /\ history[1][2] = InitAction)

C1_Witness ==
  /\ stack = <<>> /\ created = "returned" /\ Len(history) = 3
  /\ history[2][2].type = "INC" /\ history[3][2].type = "DBL"
  /\ ActiveCount("L1") = 1
  /\ currentState # preloaded

\* C2: a dispatch of a valid action while isDispatching is set fails with the
\* reentrancy error and changes nothing: no reducer call (no frame), no state
\* change, the flag stays set, no listener is called.
C2_ReentrantDispatchRefused ==
  [][\A a \in ValidActions : (Dispatch(a) /\ isDispatching) =>
       /\ exc' = Error("ReducersMayNotDispatch")
       /\ UNCHANGED <<currentState, isDispatching, stack, arrays,
                      currentListeners, nextListeners, currentReducer>>]_vars

C2_Witness ==
  /\ InReducer /\ isDispatching
  /\ exc = Error("ReducersMayNotDispatch")
  /\ Len(NextArray) >= 1

\* C3: when the reducer's error leaves dispatch the flag is false, the state is
\* the one before the call, the call has invoked no listener and has not moved
\* currentListeners; and an error that has left a reducer call finds the flag
\* false, so the next dispatch is not refused.
C3_ReducerErrorCleanup ==
  /\ [][(ReducerThrow \/ ReducerRethrow) =>
          /\ ~isDispatching'
          /\ currentState' = currentState
          /\ currentListeners' = currentListeners
          /\ Top.called = <<>>
          /\ stack' = Pop
          /\ exc' # NoError]_vars
  /\ []((exc # NoError /\ ~InReducer) => ~isDispatching)

C3_Witness ==
  /\ stack = <<>> /\ created = "returned"
  /\ exc = Error("ReducerThrew")
  /\ ~isDispatching
  /\ Len(NextArray) >= 1

\* C4: a pass in flight calls exactly its snapshot, in order: the array it
\* iterates still holds what it held when the snapshot was taken, and the
\* listeners called so far are the snapshot's first ones, whatever subscribe,
\* unsubscribe and nested dispatch calls the listeners have made.
C4_PassFollowsSnapshot ==
  \A k \in 1 .. Len(stack) : InPass(stack[k]) =>
    LET f == stack[k]
        n == IF f.pc = "listener" THEN f.i + 1 ELSE f.i
    IN  /\ arrays[f.listeners] = f.snap
        /\ n <= Len(f.snap)
        /\ f.called = SubSeq(f.snap, 1, n)

C4_Witness ==
  /\ Len(stack) = 2 /\ InPass(stack[1]) /\ InPass(stack[2])
  /\ stack[1].snap # stack[2].snap
  /\ stack[2].snap # NextArray
  /\ \E s \in 1 .. Len(subs) : ~subs[s].isSubscribed

C7_UnsubscribeSingleUse ==
  [][\A s \in 1 .. Len(subs) :
       /\ (Unsubscribe(s) /\ ~subs[s].isSubscribed) =>
            UNCHANGED <<arrays, nextListeners, currentListeners, registry>>
       /\ (Unsubscribe(s) /\ subs[s].isSubscribed) =>
            /\ Len(NextArray') = Len(NextArray) - 1
            /\ Count(NextArray', subs[s].listener) = Count(NextArray, subs[s].listener) - 1
            /\ ~subs'[s].isSubscribed]_vars

C7_Witness ==
  \E s, t \in 1 .. Len(subs) :
    /\ s # t
    /\ subs[s].calls = 2
    /\ subs[t].listener = subs[s].listener
    /\ subs[t].isSubscribed
    /\ Count(NextArray, subs[s].listener) = 1

\* C8: a dispatch call that returns has called every listener that was
\* subscribed when the call began.
C8_SubscribedAtBeginAreCalled ==
  \A k \in 1 .. Len(stack) : PassDone(stack[k]) =>
    \A l \in Listeners : Count(stack[k].called, l) >= Count(stack[k].begin, l)

\* C9: a listener's error ends the pass (the listeners after it are not called
\* by it) and goes to the caller of dispatch; the state stays what it was and
\* the flag is false.
C9_ListenerErrorAbortsPass ==
  /\ [][ListenerThrow =>
          /\ stack' = Pop
          /\ exc' # NoError
          /\ currentState' = currentState
          /\ ~isDispatching'
          /\ exc = NoError => exc'.left = Len(Top.snap) - Len(Top.called)]_vars
  /\ [](exc.kind = "ListenerThrew" => ~isDispatching)

C9_Witness ==
  /\ stack = <<>> /\ created = "returned"
  /\ exc.kind = "ListenerThrew" /\ exc.left >= 1
  /\ ~isDispatching

\* C10: replaceReducer(r) outside a reducer makes r the current reducer and
\* begins one dispatch of INIT, which r reduces; that dispatch stores
\* r(previous state, INIT), takes the registry as its snapshot and calls all of
\* it before it returns; every dispatch begun later runs the current reducer,
\* which only replaceReducer changes.
C10_ReplaceReducer ==
  /\ [][\A r \in Reducers : (ReplaceReducer(r) /\ ~isDispatching) =>
          /\ currentReducer' = r
          /\ Len(stack') = Len(stack) + 1
          /\ stack'[Len(stack')].pc = "reducer"
          /\ stack'[Len(stack')].reducer = r
          /\ stack'[Len(stack')].action = InitAction
          /\ history' = Append(history, <<r, InitAction>>)]_vars
  /\ [][ReducerReturn =>
          /\ currentState' = Reduce(history[Len(history)][1], currentState, history[Len(history)][2])
          /\ stack'[Len(stack')].snap = registry]_vars
  /\ [](\A k \in 1 .. Len(stack) : PassDone(stack[k]) => stack[k].called = stack[k].snap)
  /\ [][Len(stack') > Len(stack) => stack'[Len(stack')].reducer = currentReducer']_vars
  /\ [][currentReducer' # currentReducer => \E r \in Reducers : ReplaceReducer(r)]_vars

C10_Witness ==
  /\ Len(stack) = 1 /\ PassDone(Top)
  /\ Top.called = <<"L1">>
  /\ history = << <<"counter", InitAction>>, <<"shift", InitAction>> >>
  /\ currentReducer = "shift"
  /\ preloaded = Undefined
  /\ currentState = 1

\* C11: a dispatch of a value that is no plain object, or of an object whose
\* type is undefined, fails with the invalid-action error wherever it is called
\* from (a reducer included: the test comes before the reentrancy test), and
\* the call enters no reducer and no listener and leaves the state, the
\* reducer, the listener arrays and the flag as they were.
C11_InvalidActionRefused ==
  [][\A a \in InvalidActions : Dispatch(a) =>
       /\ exc' = Error("InvalidAction")
       /\ UNCHANGED <<currentState, currentReducer, isDispatching, stack, arrays,
                      currentListeners, nextListeners, registry, subs>>]_vars

C11_Witness ==
  /\ InReducer /\ isDispatching
  /\ exc = Error("InvalidAction")
  /\ Len(NextArray) >= 1

C13_OuterAssignsWhenRethrown ==
  [][(ReducerRethrow /\ exc = Error("ReducersMayNotDispatch")) =>
       currentState' = Reduce(Top.reducer, currentState, Top.action)]_vars

\* C13 as amended: a dispatch called by a reducer is refused with the
\* reentrancy error and leaves the state and the outer call where they were.
\* When the reducer catches the error and returns, the outer dispatch assigns
\* the reducer's result and goes on to its listeners; when the reducer lets
\* the error escape, the outer dispatch ends with that error, assigns nothing
\* and clears the flag.
C13_NestedRefusedOuterDecides ==
  /\ [][\A a \in ValidActions : (Dispatch(a) /\ InReducer) =>
          /\ exc' = Error("ReducersMayNotDispatch")
          /\ stack'[Len(stack')].refused
          /\ Len(stack') = Len(stack)
          /\ UNCHANGED <<currentState, isDispatching, history, currentListeners, nextListeners>>]_vars
  /\ [][(ReducerReturn /\ Top.refused) =>
          /\ currentState' = Reduce(Top.reducer, currentState, Top.action)
          /\ stack'[Len(stack')].pc = "notify"
          /\ ~isDispatching']_vars
  /\ [][(ReducerRethrow /\ Top.refused) =>
          /\ currentState' = currentState
          /\ stack' = Pop
          /\ exc' = exc
          /\ ~isDispatching']_vars

C13_Witness ==
  /\ Len(stack) = 1 /\ Top.pc = "notify" /\ Top.refused
  /\ history[Len(history)] = <<"counter", Action("object", "INC")>>
  /\ currentState = 2
  /\ exc = NoError

\* C14: only the assignment of line 185 changes the state: getState,
\* subscribe, unsubscribe and a dispatch that fails leave it as it is, so that
\* what getState returned is still the state until a dispatch next assigns it.
C14_StateChangesOnlyByReducerReturn ==
  /\ [][currentState' # currentState => ReducerReturn]_vars
  /\ [][GetState => (read' = <<currentState>> /\ currentState' = currentState)]_vars
  /\ [](read # NoRead => read = <<currentState>>)

C14_Witness ==
  /\ stack = <<>> /\ created = "returned"
  /\ read # NoRead
  /\ exc = Error("ReducerThrew")
  /\ Len(subs) = 1 /\ ~subs[1].isSubscribed

\* C15: the state of a store createStore has returned is never undefined.
C15_StateNeverAbsent == created = "returned" => currentState # Undefined

\* C15 as amended: the state of a store createStore has returned, and what
\* getState returns then, is reducer(preloadedState, INIT); it is not undefined
\* when the reducer returns a value other than undefined for that call.
C15_StateIsReducerOfPreloaded ==
  created = "returned" =>
    LET v == Reduce(args.reducer, args.preloadedState, InitAction)
    IN  /\ currentState = v
        /\ read # NoRead => read = <<v>>
        /\ v # Undefined => (currentState # Undefined /\ read # <<Undefined>>)

C15_Witness ==
  /\ created = "returned"
  /\ args.reducer = "counter"
  /\ args.preloadedState = Undefined
  /\ args.via = "caller"
  /\ read = <<0>>

\* C18: the flag is set exactly while a reducer is running: it is false when a
\* listener is called and when a dispatch call returns or throws, so that a
\* dispatch of a valid action by a listener is accepted: it enters the reducer
\* and, later, a pass of its own.
C18_FlagOnlyInReducer ==
  /\ [](isDispatching <=> InReducer)
  /\ [][(InvokeListener \/ DispatchReturn \/ ListenerThrow \/ ReducerThrow \/ ReducerRethrow) =>
          ~isDispatching']_vars
  /\ [][\A a \in ValidActions : (Dispatch(a) /\ InListener) =>
          /\ exc' = NoError
          /\ Len(stack') = Len(stack) + 1
          /\ stack'[Len(stack')].pc = "reducer"
          /\ stack'[Len(stack')].action = a]_vars

C18_Witness ==
  /\ Len(stack) = 2
  /\ stack[1].pc = "listener"
  /\ PassDone(stack[2]) /\ Len(stack[2].called) >= 1
  /\ ~isDispatching /\ exc = NoError

\* The arrays a pass has taken as its snapshot and that are still reachable.
Snapshots == {currentListeners} \cup {stack[k].listeners : k \in {j \in 1 .. Len(stack) : InPass(stack[j])}}

\* A subscribe call, or an unsubscribe call that takes effect.
Mutates ==
  \/ \E l \in Listeners : Subscribe(l)
  \/ \E s \in 1 .. Len(subs) : subs[s].isSubscribed /\ Unsubscribe(s)

\* C19: nextListeners and currentListeners are one array from a snapshot
\* (line 193) to the next subscribe or effective unsubscribe, and two arrays
\* from there to the next snapshot; the mutation that finds them one array
\* copies it and changes the copy; no step changes an array that is the
\* snapshot of a pass.
C19_CopyOnWrite ==
  /\ [][ReducerReturn => nextListeners' = currentListeners']_vars
  /\ [][Mutates =>
          /\ nextListeners' # currentListeners'
          /\ currentListeners' = currentListeners
          /\ arrays'[currentListeners] = arrays[currentListeners]
          /\ arrays'[nextListeners'] # arrays[nextListeners]
          /\ (nextListeners # currentListeners) => nextListeners' = nextListeners]_vars
  /\ [][((nextListeners' = currentListeners') # (nextListeners = currentListeners)) =>
          (ReducerReturn \/ Mutates)]_vars
  /\ [][\A r \in Snapshots : r \in Snapshots' => arrays'[r] = arrays[r]]_vars

C19_Witness ==
  /\ InListener
  /\ Top.listeners = currentListeners
  /\ nextListeners # currentListeners
  /\ Len(Top.snap) = 2
  /\ NextArray = <<Top.snap[2]>>

RECURSIVE Nested(_, _)
Nested(fs, a) ==
  IF Len(fs) = 1 THEN Call(fs[1].fs[1], a)
  ELSE Call(fs[1].fs[1], <<Nested(Tail(fs), a)>>)

\* The calls of f1(f2(... fn(args))) in order: fn with all of args first, then
\* each function before it with one argument.
RightToLeft(fs, a) ==
  [k \in 1 .. Len(fs) |->
     <<fs[Len(fs) + 1 - k].fs[1], IF k = 1 THEN Len(a) ELSE 1>>]

\* C16: compose() is a function that returns its first argument and calls
\* nothing, compose(f) is f, and compose(f1, ..., fn)(args) is
\* f1(f2(... fn(args))): every function called once, the rightmost first and
\* on all the arguments, every other on the one value of the function after it.
C16_ComposeIsRightFold ==
  /\ (composed # NoFunction /\ Len(funcs) = 0) => composed = Identity
  /\ (composed # NoFunction /\ Len(funcs) = 1) => composed = funcs[1]
  /\ (result # NotCalled /\ Len(funcs) = 0) =>
        (applied = <<>> /\ result = IF given = <<>> THEN UndefinedValue ELSE given[1])
  /\ (result # NotCalled /\ Len(funcs) >= 1) =>
        (result = Nested(funcs, given) /\ applied = RightToLeft(funcs, given))

C16_Witness ==
  /\ funcs = <<Probe("f"), Probe("g"), Probe("h")>>
  /\ given = <<"x", "y">>
  /\ result = "f(g(h(x,y)))"
  /\ applied = << <<"h", 2>>, <<"g", 1>>, <<"f", 1>> >>

\* The function actionCreators has under key.
Original(key) == (CHOOSE p \in actionCreators.props : p[1] = key)[2]

\* C17: bindActionCreators of an object that is not null returns an object
\* whose keys are the keys of the argument that hold a function, each holding
\* the bound form of that function, and calls dispatch for none of them; a
\* call of the function under a key with args calls dispatch once, with
\* original(args), and returns what dispatch returned.
C17_BindActionCreators ==
  /\ []((actionCreators.typeof = "object" /\ ~actionCreators.null /\ boundActionCreators # NoBound) =>
          /\ boundActionCreators.kind = "object"
          /\ {p[1] : p \in boundActionCreators.props}
               = {p[1] : p \in {q \in actionCreators.props : q[2] # NotAFunction}}
          /\ \A p \in boundActionCreators.props :
               <<p[1], p[2][1]>> \in actionCreators.props /\ p[2][2] = DispatchFn)
  /\ [][Bind => dispatched' = dispatched]_vars
  /\ [](boundActionCreators = NoBound => dispatched = <<>>)
  /\ [][\A key \in Keys, a \in SeqsUpTo(Arguments, MaxArgs) :
          (CallBound(key, a) /\ boundActionCreators.kind = "object") =>
            /\ Len(dispatched') = Len(dispatched) + 1
            /\ dispatched' = Append(dispatched, Call(Original(key), a))
            /\ returned' = Call(DispatchFn, <<Call(Original(key), a)>>)
            /\ boundActionCreators' = boundActionCreators]_vars

C17_Witness ==
  /\ actionCreators.props = {<<"a", "inc">>, <<"b", NotAFunction>>}
  /\ boundActionCreators.props = {<<"a", <<"inc", DispatchFn>>>>}
  /\ given = <<"x", "y">>
  /\ dispatched = <<"inc(x,y)">>
  /\ returned = "dispatch(inc(x,y))"

====
